---- MODULE Spec2Model ----
(***************************************************************************)
(* NaijaConsensus engine: the PBFT finalization path, the reputation       *)
(* ledger and the committee selection of the two source files              *)
(*   src/rust_consensus_snippet.rs   (program "snippet")                   *)
(*   src/src/consensus.rs            (program "consensus")                 *)
(***************************************************************************)
EXTENDS Integers, Sequences, FiniteSets, TLC

VARIABLES
    program,             \* which source file's engine this behaviour runs
    current_committee,   \* snippet: NaijaConsensusEngine.current_committee
    current_validators,  \* consensus: NaijaConsensusEngine.current_validators
    faulty_nodes_limit,  \* NaijaConsensusEngine.faulty_nodes_limit ('f')
    committee,           \* consensus: the &[Validator] handed to process_block_pbft
    block,               \* the Block value the caller holds (NoBlock before one is built)
    result,              \* outcome of the last finalize/process call on `block`
    before,              \* the engine's validator list when that call started
    finalized,           \* number of calls that returned Ok
    failed_before,       \* a call on this block has failed since it was built or last finalized
    start,               \* the engine's validator list when the block was built or last finalized
    sel_pool,            \* selection: all_staked_validators
    sel_size,            \* selection: committee_size / total_committee_size
    sel_per_zone,        \* selection: num_validators_per_zone (consensus only)
    sel_out,             \* selection: what the call produced (NotCalled before)
    mk_transactions,     \* Merkle root: the transaction list handed in
    mk_out,              \* Merkle root: what the call produced (NotCalled before)
    mk_proposer_key      \* proposal: the proposer_key handed to propose_block

vars == << program, current_committee, current_validators, faulty_nodes_limit,
           committee, block, result, before, finalized, failed_before, start,
           sel_pool, sel_size, sel_per_zone, sel_out, mk_transactions, mk_out,
           mk_proposer_key >>

engine_vars == << current_committee, current_validators, faulty_nodes_limit,
                  committee, block, result, before, finalized, failed_before,
                  start >>

sel_vars == << sel_pool, sel_size, sel_per_zone, sel_out >>

merkle_vars == << mk_transactions, mk_out, mk_proposer_key >>

(***************************************************************************)
(* Bounds of the model.                                                    *)
(***************************************************************************)
\* largest faulty_nodes_limit an engine is constructed with
MaxF == 1
\* longest prepare_signatures / commit_signatures list the caller builds
MaxSigs == 3
\* number of successful finalizations followed in one behaviour
MaxFinalized == 2
\* width, in bits, the u64 fields are scaled down to
U64_BITS == 6
\* largest validator pool handed to committee selection
MaxPool == 7
\* longest transaction list, and number of different votes, given to the Merkle root
MaxTxs == 3

(***************************************************************************)
(* Byte vectors.  Every Vec<u8> the sources build is vec![b; n] (n copies   *)
(* of byte b), so a byte vector is the pair <<b, n>>; two are equal exactly *)
(* when the Rust vectors are.                                              *)
(***************************************************************************)
Vec(b, n) == << b, n >>

U64_MAX == 2 ^ U64_BITS - 1

saturating_add(x, n) == IF x > U64_MAX - n THEN U64_MAX ELSE x + n

saturating_sub(x, n) == IF x < n THEN 0 ELSE x - n

\* usize arithmetic of the quorum test: 2 * self.faulty_nodes_limit + 1
QuorumOff(f) == 2 * f

Quorum(f) == 2 * f + 1

Programs == { "snippet", "consensus" }

Zones == << "South-West", "North-Central", "South-South",
            "North-West", "South-East", "North-East" >>

Validator(prog, key, stake, rep, zone) ==
    IF prog = "snippet"
    THEN [ pub_key |-> key, stake |-> stake, reputation_score |-> rep,
           geopolitical_zone |-> zone ]
    ELSE [ pub_key |-> key, stake |-> stake, geopolitical_zone |-> zone,
           reputation_score |-> rep, last_active_block |-> 0 ]

(***************************************************************************)
(* Signatures.  A Signature is a Vec<u8> (`bytes`); `signer` is the key    *)
(* whose holder produced it, which the byte vector does not carry and the  *)
(* code never reads.  ed25519_sign / sign_message return vec![0; 64] for   *)
(* every key and message.                                                  *)
(***************************************************************************)
ed25519_sign(signer) == [ signer |-> signer, bytes |-> Vec(0, 64) ]

\* signatures the caller can put into a block, in the order it collects them:
\* two committee members' (the second one's bytes spell its own public key)
\* and one from a key that belongs to no validator
SigPool ==
    << ed25519_sign(Vec(1, 1)),
       [ signer |-> Vec(2, 1), bytes |-> Vec(2, 1) ],
       ed25519_sign(Vec(9, 1)) >>

Signers(sigs) == { sigs[i].signer : i \in DOMAIN sigs }

Contains(seq, x) == \E i \in DOMAIN seq : seq[i] = x

Keys(validators) == { validators[i].pub_key : i \in DOMAIN validators }

NoBlock == [ none |-> TRUE ]

NotCalled == [ called |-> FALSE ]

(***************************************************************************)
(* Committee selection.                                                    *)
(***************************************************************************)
\* a.stake * a.reputation_score in u64: the product wraps where the build
\* does not check overflow
Score(v) == (v.stake * v.reputation_score) % (2 ^ U64_BITS)

\* sort_by(|a, b| score_b.cmp(&score_a)): a stable sort, descending by score;
\* Rank(i) is the place the i-th validator of the slice ends at
Rank(all, i) ==
    1 + Cardinality({ j \in DOMAIN all :
                        \/ Score(all[j]) > Score(all[i])
                        \/ Score(all[j]) = Score(all[i]) /\ j < i })

SortedByScore(all) ==
    [ k \in 1..Len(all) |-> all[CHOOSE i \in DOMAIN all : Rank(all, i) = k] ]

\* zone_counts.entry(zone).or_insert(0): a zone not yet in the map counts 0
ZoneCount(zone_counts, zone) ==
    IF zone \in DOMAIN zone_counts THEN zone_counts[zone] ELSE 0

ZoneBump(zone_counts, zone) ==
    [ z \in DOMAIN zone_counts \cup { zone } |->
        IF z = zone THEN ZoneCount(zone_counts, zone) + 1 ELSE zone_counts[z] ]

EmptyMap == [ z \in {} |-> 0 ]

RECURSIVE select_validators_loop(_, _, _, _, _, _)
select_validators_loop(sorted, i, selected, zone_counts, num_validators_per_zone, total_committee_size) ==
    IF i > Len(sorted) THEN selected
    ELSE LET validator == sorted[i]
             zone == validator.geopolitical_zone
             current_zone_count == ZoneCount(zone_counts, zone)
             take == \/ current_zone_count < num_validators_per_zone
                     \/ Len(selected) < total_committee_size
             selected2 == IF take THEN Append(selected, validator) ELSE selected
             \* the entry exists from here on, bumped only when the validator is taken
             counts2 == IF take THEN ZoneBump(zone_counts, zone)
                        ELSE [ z \in DOMAIN zone_counts \cup { zone } |->
                                 ZoneCount(zone_counts, z) ]
         IN  IF Len(selected2) = total_committee_size THEN selected2
             ELSE select_validators_loop(sorted, i + 1, selected2, counts2,
                                         num_validators_per_zone, total_committee_size)

\* consensus.rs
select_validators(all_staked_validators, num_validators_per_zone, total_committee_size) ==
    select_validators_loop(SortedByScore(all_staked_validators), 1, << >>, EmptyMap,
                           num_validators_per_zone, total_committee_size)

AlreadySelected(selected, validator) ==
    \E i \in DOMAIN selected : selected[i].pub_key = validator.pub_key

\* the inner loop of the zone pass: one walk over the sorted pool for `zone`
RECURSIVE zone_pass(_, _, _, _, _, _)
zone_pass(sorted, i, zone, count, min_per_zone, selected) ==
    IF i > Len(sorted) THEN selected
    ELSE LET validator == sorted[i]
             take == /\ validator.geopolitical_zone = zone
                     /\ count < min_per_zone
                     /\ ~AlreadySelected(selected, validator)
         IN  zone_pass(sorted, i + 1, zone,
                       IF take THEN count + 1 ELSE count, min_per_zone,
                       IF take THEN Append(selected, validator) ELSE selected)

\* for zone in zones.iter()
RECURSIVE all_zones_pass(_, _, _, _)
all_zones_pass(sorted, z, min_per_zone, selected) ==
    IF z > Len(Zones) THEN selected
    ELSE all_zones_pass(sorted, z + 1, min_per_zone,
                        zone_pass(sorted, 1, Zones[z], 0, min_per_zone, selected))

\* fill remaining spots with the highest-scoring validators regardless of zone
RECURSIVE fill_pass(_, _, _, _)
fill_pass(sorted, i, committee_size, selected) ==
    IF i > Len(sorted) THEN selected
    ELSE IF Len(selected) < committee_size
         THEN fill_pass(sorted, i + 1, committee_size,
                        IF ~AlreadySelected(selected, sorted[i])
                        THEN Append(selected, sorted[i]) ELSE selected)
         ELSE selected

\* rust_consensus_snippet.rs
select_election_validators(all_staked_validators, committee_size) ==
    LET min_per_zone == committee_size \div Len(Zones)
        sorted == SortedByScore(all_staked_validators)
    IN  fill_pass(sorted, 1, committee_size,
                  all_zones_pass(sorted, 1, min_per_zone, << >>))

(***************************************************************************)
(* Blocks.                                                                 *)
(***************************************************************************)
\* the transaction main() builds (dummy_tx), for candidate c
VoteTransaction(c) ==
    [ voter_pub_key |-> Vec(10, 1), election_id |-> Vec(1, 1),
      candidate_id |-> Vec(c, 1), timestamp |-> 0, signature |-> Vec(0, 64) ]

\* transaction lists a block is proposed with
TxLists == { << >>, << VoteTransaction(2) >> }

\* keys a block is proposed under: a committee member's and a stranger's
ProposerKeys == { Vec(1, 1), Vec(9, 1) }

\* snippet with another digest for the empty list
calculate_merkle_root_nonzero(transactions) ==
    IF transactions = << >> THEN Vec(1, 32) ELSE Vec(0, 32)

\* snippet: the root is the same dummy digest for every list
calculate_merkle_root(transactions) ==
    IF transactions = << >> THEN Vec(0, 32) ELSE Vec(0, 32)

\* snippet with the proposer's prepare and commit signatures already in the header
propose_block_presigned(transactions, proposer_key) ==
    [ header |-> [ prev_block_hash |-> Vec(0, 32),
                   merkle_root |-> calculate_merkle_root(transactions),
                   timestamp |-> 0,
                   height |-> 100,
                   validator_pub_key |-> proposer_key,
                   pre_prepare_signatures |-> << >>,
                   prepare_signatures |-> << ed25519_sign(proposer_key) >>,
                   commit_signatures |-> << ed25519_sign(proposer_key) >> ],
      transactions |-> transactions ]

\* snippet; the wall-clock timestamp, which nothing reads, is held at 0
propose_block(transactions, proposer_key) ==
    [ header |-> [ prev_block_hash |-> Vec(0, 32),
                   merkle_root |-> calculate_merkle_root(transactions),
                   timestamp |-> 0,
                   height |-> 100,
                   validator_pub_key |-> proposer_key,
                   pre_prepare_signatures |-> << >>,
                   prepare_signatures |-> << >>,
                   commit_signatures |-> << >> ],
      transactions |-> transactions ]

\* consensus: the Block literal of main(), its signature lists still to be filled
dummy_block ==
    [ header |-> [ version |-> 1,
                   prev_block_hash |-> Vec(0, 32),
                   merkle_root |-> Vec(1, 32),
                   timestamp |-> 1678886400,
                   height |-> 1 ],
      transactions |-> << >>,
      pre_prepare_signatures |-> << >>,
      prepare_signatures |-> << >>,
      commit_signatures |-> << >> ]

\* the signature lists sit in the header (snippet) or in the block (consensus)
SigLists(b) == IF "prepare_signatures" \in DOMAIN b THEN b ELSE b.header

PrePrepareSigs(b) == SigLists(b).pre_prepare_signatures

PrepareSigs(b) == SigLists(b).prepare_signatures

CommitSigs(b) == SigLists(b).commit_signatures

WithSigs(b, phase, sigs) ==
    IF "prepare_signatures" \in DOMAIN b
    THEN [ b EXCEPT ![phase] = sigs ]
    ELSE [ b EXCEPT !.header[phase] = sigs ]

(***************************************************************************)
(* Reputation ledger.                                                      *)
(***************************************************************************)
\* snippet with the slashing the else branch leaves out: the stake is halved
update_reputations_slashing(validators, b) ==
    LET committed_validators ==
            [ i \in DOMAIN b.header.commit_signatures |-> Vec(0, 32) ]
    IN  [ i \in DOMAIN validators |->
            IF Contains(committed_validators, validators[i].pub_key)
            THEN [ validators[i] EXCEPT
                     !.reputation_score = saturating_add(@, 1) ]
            ELSE [ validators[i] EXCEPT
                     !.reputation_score = saturating_sub(@, 5),
                     !.stake = @ \div 2 ] ]

\* snippet: every commit signature maps to the dummy key vec![0; 32]
update_reputations_for_block(validators, b) ==
    LET committed_validators ==
            [ i \in DOMAIN b.header.commit_signatures |-> Vec(0, 32) ]
    IN  [ i \in DOMAIN validators |->
            IF Contains(committed_validators, validators[i].pub_key)
            THEN [ validators[i] EXCEPT
                     !.reputation_score = saturating_add(@, 1) ]
            ELSE [ validators[i] EXCEPT
                     !.reputation_score = saturating_sub(@, 5) ] ]

\* consensus with the committee test dropped
update_reputations_everyone(validators, b, members) ==
    LET participating_keys ==
            [ i \in DOMAIN b.commit_signatures |-> b.commit_signatures[i].bytes ]
    IN  [ i \in DOMAIN validators |->
            IF Contains(participating_keys, validators[i].pub_key)
            THEN [ validators[i] EXCEPT
                     !.reputation_score = saturating_add(@, 1) ]
            ELSE [ validators[i] EXCEPT
                     !.reputation_score = saturating_sub(@, 5) ] ]

\* consensus: the signer's key is taken to be the signature's own bytes
update_reputations_for_committee(validators, b, members) ==
    LET participating_keys ==
            [ i \in DOMAIN b.commit_signatures |-> b.commit_signatures[i].bytes ]
    IN  [ i \in DOMAIN validators |->
            IF \E j \in DOMAIN members : members[j].pub_key = validators[i].pub_key
            THEN IF Contains(participating_keys, validators[i].pub_key)
                 THEN [ validators[i] EXCEPT
                          !.reputation_score = saturating_add(@, 1) ]
                 ELSE [ validators[i] EXCEPT
                          !.reputation_score = saturating_sub(@, 5) ]
            ELSE validators[i] ]

(***************************************************************************)
(* PBFT finalization.  Each returns the Result and the engine's validator  *)
(* list after the call.                                                    *)
(***************************************************************************)
\* snippet with the prepare test off by one (<=)
finalize_block_pbft_strict(validators, f, b) ==
    IF Len(b.header.prepare_signatures) <= Quorum(f)
    THEN [ result |-> "Not enough prepare signatures", validators |-> validators ]
    ELSE IF Len(b.header.commit_signatures) < Quorum(f)
    THEN [ result |-> "Not enough commit signatures", validators |-> validators ]
    ELSE [ result |-> "Ok",
           validators |-> update_reputations_for_block(validators, b) ]

\* snippet with the prepare-phase error penalising the committee
finalize_block_pbft_penalising(validators, f, b) ==
    IF Len(b.header.prepare_signatures) < Quorum(f)
    THEN [ result |-> "Not enough prepare signatures",
           validators |-> update_reputations_for_block(validators, b) ]
    ELSE IF Len(b.header.commit_signatures) < Quorum(f)
    THEN [ result |-> "Not enough commit signatures", validators |-> validators ]
    ELSE [ result |-> "Ok",
           validators |-> update_reputations_for_block(validators, b) ]

\* snippet
finalize_block_pbft(validators, f, b) ==
    IF Len(b.header.prepare_signatures) < Quorum(f)
    THEN [ result |-> "Not enough prepare signatures", validators |-> validators ]
    ELSE IF Len(b.header.commit_signatures) < Quorum(f)
    THEN [ result |-> "Not enough commit signatures", validators |-> validators ]
    ELSE [ result |-> "Ok",
           validators |-> update_reputations_for_block(validators, b) ]

\* consensus with the commit test ahead of the prepare test
process_block_pbft_commit_first(validators, f, proposed_block, members) ==
    IF Len(proposed_block.commit_signatures) < Quorum(f)
    THEN [ result |-> "Not enough commit signatures to finalize block.",
           validators |-> validators ]
    ELSE IF Len(proposed_block.prepare_signatures) < Quorum(f)
    THEN [ result |-> "Not enough prepare signatures to proceed to Commit phase.",
           validators |-> validators ]
    ELSE [ result |-> "Ok",
           validators |->
               update_reputations_for_committee(validators, proposed_block, members) ]

\* consensus with the commit-phase error updating the reputations
process_block_pbft_penalising(validators, f, proposed_block, members) ==
    IF Len(proposed_block.prepare_signatures) < Quorum(f)
    THEN [ result |-> "Not enough prepare signatures to proceed to Commit phase.",
           validators |-> validators ]
    ELSE IF Len(proposed_block.commit_signatures) < Quorum(f)
    THEN [ result |-> "Not enough commit signatures to finalize block.",
           validators |->
               update_reputations_for_committee(validators, proposed_block, members) ]
    ELSE [ result |-> "Ok",
           validators |->
               update_reputations_for_committee(validators, proposed_block, members) ]

\* consensus
process_block_pbft(validators, f, proposed_block, members) ==
    IF Len(proposed_block.prepare_signatures) < Quorum(f)
    THEN [ result |-> "Not enough prepare signatures to proceed to Commit phase.",
           validators |-> validators ]
    ELSE IF Len(proposed_block.commit_signatures) < Quorum(f)
    THEN [ result |-> "Not enough commit signatures to finalize block.",
           validators |-> validators ]
    ELSE [ result |-> "Ok",
           validators |->
               update_reputations_for_committee(validators, proposed_block, members) ]

(***************************************************************************)
(* The engine: construction and the calls made on it.                      *)
(***************************************************************************)
\* NaijaConsensusEngine::new (both files): the fields are stored as given
new(initial_validators, faulty_limit) ==
    [ validators |-> initial_validators, faulty_nodes_limit |-> faulty_limit ]

\* the validators an engine is constructed with, with the given reputations
Roster(prog, reps) ==
    LET keys == IF prog = "snippet"
                THEN << Vec(0, 32), Vec(1, 1), Vec(2, 1) >>
                ELSE << Vec(1, 1), Vec(2, 1), Vec(3, 1) >>
        zones == << "South-West", "North-Central", "South-West" >>
    IN  [ i \in 1..3 |-> Validator(prog, keys[i], 1, reps[i], zones[i]) ]

\* initial reputation scores: at the top of the range, in the middle, below 5
RepInits == { << U64_MAX, U64_MAX, 3 >>, << 10, 10, 3 >> }

\* committee sizes main() asks select_validators for
CommitteeSizes == { 2, 3 }

EngineValidators ==
    IF program = "snippet" THEN current_committee ELSE current_validators

SelectionIdle ==
    /\ sel_pool = << >>
    /\ sel_size = 0
    /\ sel_per_zone = 0
    /\ sel_out = NotCalled

MerkleIdle ==
    /\ mk_transactions = << >>
    /\ mk_out = NotCalled
    /\ mk_proposer_key = Vec(0, 0)

Init ==
    /\ program \in Programs
    /\ \E reps \in RepInits, f \in 0..MaxF :
         LET engine == new(Roster(program, reps), f)
         IN  /\ faulty_nodes_limit = engine.faulty_nodes_limit
             /\ current_committee =
                    IF program = "snippet" THEN engine.validators ELSE << >>
             /\ current_validators =
                    IF program = "consensus" THEN engine.validators ELSE << >>
             /\ committee \in
                    IF program = "consensus"
                    THEN { select_validators(engine.validators, 1, n) :
                             n \in CommitteeSizes }
                    ELSE { << >> }
             /\ before = engine.validators
             /\ start = engine.validators
    /\ block = NoBlock
    /\ result = "none"
    /\ finalized = 0
    /\ failed_before = FALSE
    /\ SelectionIdle
    /\ MerkleIdle

Running == finalized < MaxFinalized

\* what every step of the caller leaves alone, and what it resets; `fresh`
\* says the step makes a new block
CallerStep(fresh) ==
    /\ result' = "none"
    /\ before' = EngineValidators
    /\ failed_before' = IF fresh \/ result = "Ok" THEN FALSE ELSE failed_before
    /\ start' = IF fresh \/ result = "Ok" THEN EngineValidators ELSE start
    /\ UNCHANGED << program, current_committee, current_validators,
                    faulty_nodes_limit, committee, finalized, sel_vars,
                    merkle_vars >>

\* what a finalize/process call that returned `r` records about the block
CallStep(r) ==
    /\ result' = r.result
    /\ finalized' = IF r.result = "Ok" THEN finalized + 1 ELSE finalized
    /\ before' = EngineValidators
    /\ failed_before' = IF r.result # "Ok" THEN TRUE
                        ELSE IF result = "Ok" THEN FALSE ELSE failed_before
    /\ start' = IF result = "Ok" THEN EngineValidators ELSE start

\* snippet: engine.propose_block(vec![..], key)
ProposeBlock ==
    /\ program = "snippet"
    /\ Running
    /\ \E transactions \in TxLists, proposer_key \in ProposerKeys :
         block' = propose_block(transactions, proposer_key)
    /\ CallerStep(TRUE)

\* consensus: let dummy_block = Block { .. }
BuildBlock ==
    /\ program = "consensus"
    /\ Running
    /\ block' = dummy_block
    /\ CallerStep(TRUE)

\* snippet: the caller overwrites the header's root after the proposal
TamperMerkleRoot ==
    /\ program = "snippet"
    /\ Running
    /\ block # NoBlock
    /\ block.header.merkle_root # Vec(1, 32)
    /\ block' = [ block EXCEPT !.header.merkle_root = Vec(1, 32) ]
    /\ CallerStep(FALSE)

\* the caller collects signatures in the order of SigPool
InOrder(sigs, k) ==
    IF sigs = << >> THEN TRUE
    ELSE \E j \in 1..k : sigs[Len(sigs)] = SigPool[j]

\* the leader's pre-prepare signature
PushPrePrepare ==
    /\ Running
    /\ block # NoBlock
    /\ PrePrepareSigs(block) = << >>
    /\ block' = WithSigs(block, "pre_prepare_signatures", << SigPool[1] >>)
    /\ CallerStep(FALSE)

PushPrepare ==
    /\ Running
    /\ block # NoBlock
    /\ Len(PrepareSigs(block)) < MaxSigs
    /\ \E k \in DOMAIN SigPool :
         /\ InOrder(PrepareSigs(block), k)
         /\ block' = WithSigs(block, "prepare_signatures",
                              Append(PrepareSigs(block), SigPool[k]))
    /\ CallerStep(FALSE)

PushCommit ==
    /\ Running
    /\ block # NoBlock
    /\ Len(CommitSigs(block)) < MaxSigs
    /\ \E k \in DOMAIN SigPool :
         /\ InOrder(CommitSigs(block), k)
         /\ block' = WithSigs(block, "commit_signatures",
                              Append(CommitSigs(block), SigPool[k]))
    /\ CallerStep(FALSE)

\* snippet: engine.finalize_block_pbft(block)
FinalizeBlockPbft ==
    /\ program = "snippet"
    /\ Running
    /\ block # NoBlock
    /\ LET r == finalize_block_pbft(current_committee, faulty_nodes_limit, block)
       IN  /\ current_committee' = r.validators
           /\ CallStep(r)
    /\ UNCHANGED << program, current_validators, faulty_nodes_limit, committee,
                    block, sel_vars, merkle_vars >>

\* consensus: engine.process_block_pbft(block, &committee)
ProcessBlockPbft ==
    /\ program = "consensus"
    /\ Running
    /\ block # NoBlock
    /\ LET r == process_block_pbft(current_validators, faulty_nodes_limit,
                                   block, committee)
       IN  /\ current_validators' = r.validators
           /\ CallStep(r)
    /\ UNCHANGED << program, current_committee, faulty_nodes_limit, committee,
                    block, sel_vars, merkle_vars >>

Next ==
    \/ ProposeBlock
    \/ BuildBlock
    \/ TamperMerkleRoot
    \/ PushPrePrepare
    \/ PushPrepare
    \/ PushCommit
    \/ FinalizeBlockPbft
    \/ ProcessBlockPbft

Spec == Init /\ [][Next]_vars

(***************************************************************************)
(* Committee selection as a function of its arguments: both functions are  *)
(* associated functions without self, so one call per behaviour shows all  *)
(* they do.                                                                *)
(***************************************************************************)
\* what a pool's validators look like: zone, stake, reputation_score.  The
\* product of the last one does not fit the (scaled) u64.
PoolKinds ==
    { [ zone |-> "South-West", stake |-> 5, rep |-> 6 ],
      [ zone |-> "North-Central", stake |-> 2, rep |-> 3 ],
      [ zone |-> "South-West", stake |-> 2 ^ (U64_BITS - 1), rep |-> 2 ] }

\* pools of up to MaxPool validators; the i-th holds the key vec![i]
Pools(prog) ==
    UNION { { [ i \in 1..n |->
                  Validator(prog, Vec(i, 1), kinds[i].stake, kinds[i].rep,
                            kinds[i].zone) ] :
              kinds \in [ 1..n -> PoolKinds ] } :
            n \in 0..MaxPool }

\* a build with overflow checks panics in the comparator of sort_by, which
\* runs once the slice has two elements
ScoreOverflows(all) ==
    /\ Len(all) >= 2
    /\ \E i \in DOMAIN all : all[i].stake * all[i].reputation_score > U64_MAX

Panicked == [ called |-> TRUE, panicked |-> TRUE ]

Returned(selected) == [ called |-> TRUE, panicked |-> FALSE, selected |-> selected ]

InitSelect ==
    /\ program \in Programs
    /\ current_committee = << >>
    /\ current_validators = << >>
    /\ faulty_nodes_limit = 0
    /\ committee = << >>
    /\ block = NoBlock
    /\ result = "none"
    /\ before = << >>
    /\ start = << >>
    /\ finalized = 0
    /\ failed_before = FALSE
    /\ MerkleIdle
    /\ sel_pool \in Pools(program)
    /\ sel_size = 0
    /\ sel_per_zone = 0
    /\ sel_out = NotCalled

\* the largest committee_size asked of the snippet: two seats for every zone
\* when that is more than the pool can fill
SnippetSizes == IF 2 * Len(Zones) > MaxPool THEN 2 * Len(Zones) ELSE MaxPool

\* snippet: NaijaConsensusEngine::select_election_validators(&pool, size)
SelectElectionValidators ==
    /\ program = "snippet"
    /\ sel_out = NotCalled
    /\ \E committee_size \in 0..SnippetSizes, overflow_checks \in BOOLEAN :
         /\ sel_size' = committee_size
         /\ sel_out' = IF overflow_checks /\ ScoreOverflows(sel_pool)
                       THEN Panicked
                       ELSE Returned(select_election_validators(sel_pool,
                                                                committee_size))
    /\ UNCHANGED << program, engine_vars, sel_pool, sel_per_zone, merkle_vars >>

\* consensus: NaijaConsensusEngine::select_validators(&pool, per_zone, size)
SelectValidators ==
    /\ program = "consensus"
    /\ sel_out = NotCalled
    /\ \E num_validators_per_zone \in 0..1, total_committee_size \in 0..MaxPool,
          overflow_checks \in BOOLEAN :
         /\ sel_size' = total_committee_size
         /\ sel_per_zone' = num_validators_per_zone
         /\ sel_out' = IF overflow_checks /\ ScoreOverflows(sel_pool)
                       THEN Panicked
                       ELSE Returned(select_validators(sel_pool,
                                                       num_validators_per_zone,
                                                       total_committee_size))
    /\ UNCHANGED << program, engine_vars, sel_pool, merkle_vars >>

NextSelect ==
    \/ SelectElectionValidators
    \/ SelectValidators

SpecSelect == InitSelect /\ [][NextSelect]_vars

(***************************************************************************)
(* The Merkle root on its own: calculate_merkle_root and propose_block     *)
(* read nothing of the engine, so one call of each per behaviour shows all *)
(* they do.                                                                *)
(***************************************************************************)
\* transaction lists of up to MaxTxs votes, for candidates 1..MaxTxs
MerkleTxLists ==
    UNION { [ 1..n -> { VoteTransaction(c) : c \in 1..MaxTxs } ] : n \in 0..MaxTxs }

\* the Hash a call returned
Root(hash) == [ called |-> TRUE, root |-> hash ]

InitMerkle ==
    /\ program = "snippet"
    /\ \E reps \in RepInits, f \in 0..MaxF :
         LET engine == new(Roster("snippet", reps), f)
         IN  /\ faulty_nodes_limit = engine.faulty_nodes_limit
             /\ current_committee = engine.validators
             /\ before = engine.validators
             /\ start = engine.validators
    /\ current_validators = << >>
    /\ committee = << >>
    /\ block = NoBlock
    /\ result = "none"
    /\ finalized = 0
    /\ failed_before = FALSE
    /\ SelectionIdle
    /\ mk_transactions \in MerkleTxLists
    /\ mk_out = NotCalled
    /\ mk_proposer_key \in ProposerKeys

\* snippet: self.calculate_merkle_root(&transactions)
CalculateMerkleRoot ==
    /\ mk_out = NotCalled
    /\ mk_out' = Root(calculate_merkle_root(mk_transactions))
    /\ UNCHANGED << program, engine_vars, sel_vars, mk_transactions,
                    mk_proposer_key >>

\* snippet: engine.propose_block(transactions, key)
ProposeTransactions ==
    /\ block = NoBlock
    /\ block' = propose_block(mk_transactions, mk_proposer_key)
    /\ UNCHANGED << program, current_committee, current_validators,
                    faulty_nodes_limit, committee, result, before, finalized,
                    failed_before, start, sel_vars, merkle_vars >>

\* snippet: engine.finalize_block_pbft(block) on the block as proposed
FinalizeProposed ==
    /\ block # NoBlock
    /\ result = "none"
    /\ LET r == finalize_block_pbft(current_committee, faulty_nodes_limit, block)
       IN  /\ current_committee' = r.validators
           /\ CallStep(r)
    /\ UNCHANGED << program, current_validators, faulty_nodes_limit, committee,
                    block, sel_vars, merkle_vars >>

NextMerkle ==
    \/ CalculateMerkleRoot
    \/ ProposeTransactions
    \/ FinalizeProposed

SpecMerkle == InitMerkle /\ [][NextMerkle]_vars

(***************************************************************************)
(* Properties.                                                             *)
(***************************************************************************)
\* a finalize/process call has returned on the block the caller holds
Called == result # "none"

Finalized == result = "Ok"

\* the call returned the prepare-phase error
PrepareError ==
    result \in { "Not enough prepare signatures",
                 "Not enough prepare signatures to proceed to Commit phase." }

\* the call returned the commit-phase error
CommitError ==
    result \in { "Not enough commit signatures",
                 "Not enough commit signatures to finalize block." }

\* the committee the call ran against: the engine's own list (snippet) or
\* the slice handed in (consensus)
CallCommittee == IF program = "snippet" THEN before ELSE committee

\* the signatures of a list whose signer holds a committee key
FromCommittee(sigs) ==
    { i \in DOMAIN sigs : sigs[i].signer \in Keys(CallCommittee) }

\* C1: a block is finalized only if its prepare_signatures and its
\* commit_signatures each hold at least 2f+1 entries.
C1_FinalizedOnlyWithBothQuorums ==
    Finalized =>
        /\ Len(PrepareSigs(block)) >= 2 * faulty_nodes_limit + 1
        /\ Len(CommitSigs(block)) >= 2 * faulty_nodes_limit + 1

\* C1 witness: a block with three prepare and three commit signatures is
\* finalized by an engine with f = 1.
C1_Witness ==
    /\ Finalized
    /\ faulty_nodes_limit = 1
    /\ Len(PrepareSigs(block)) = 3
    /\ Len(CommitSigs(block)) = 3

\* C2: a block gets past the prepare phase only if its prepare signatures
\* come from at least 2f+1 distinct committee members; repeating one
\* signer's signature does not make a quorum.
C2_QuorumCountsDistinctSigners ==
    (Finalized \/ CommitError) =>
        Cardinality(Signers(PrepareSigs(block)) \cap Keys(CallCommittee))
            >= 2 * faulty_nodes_limit + 1

\* C3: a block is finalized only if at least 2f+1 of its prepare signatures
\* and at least 2f+1 of its commit signatures are signed by current
\* committee keys; signatures of unknown signers do not count.
C3_UnknownSignersDoNotCount ==
    Finalized =>
        /\ Cardinality(FromCommittee(PrepareSigs(block)))
               >= 2 * faulty_nodes_limit + 1
        /\ Cardinality(FromCommittee(CommitSigs(block)))
               >= 2 * faulty_nodes_limit + 1

\* C4: the threshold is exactly 2f+1, inclusive: a block with exactly 2f+1
\* prepare and exactly 2f+1 commit signatures is finalized, and one with
\* exactly 2f prepare signatures gets the prepare-phase quorum error.
C4_ThresholdIsInclusive ==
    Called =>
        /\ ( /\ Len(PrepareSigs(block)) = 2 * faulty_nodes_limit + 1
             /\ Len(CommitSigs(block)) = 2 * faulty_nodes_limit + 1 )
           => Finalized
        /\ Len(PrepareSigs(block)) = 2 * faulty_nodes_limit => PrepareError

\* C4 witness: with f = 1 a call on a block with exactly 3 prepare and
\* exactly 3 commit signatures, all different, returned Ok.
C4_Witness ==
    /\ Finalized
    /\ faulty_nodes_limit = 1
    /\ PrepareSigs(block) = SigPool
    /\ CommitSigs(block) = SigPool

\* C5: a block whose header merkle_root differs from the root recomputed
\* over its transactions is not finalized, whatever signatures it carries.
C5_TamperedRootNotFinalized ==
    ( /\ program = "snippet"
      /\ Called
      /\ block.header.merkle_root # calculate_merkle_root(block.transactions) )
    => ~Finalized

\* C6: a block without a proposer signature, or proposed under a key that
\* is not a committee member's, is not finalized and leaves every
\* validator's reputation_score as it was.
C6_InvalidProposerNotFinalized ==
    ( /\ Called
      /\ \/ PrePrepareSigs(block) = << >>
         \/ /\ program = "snippet"
            /\ block.header.validator_pub_key \notin Keys(CallCommittee) )
    => /\ ~Finalized
       /\ EngineValidators = before

\* C7: after a finalization every committee member whose key signed one of
\* the block's commit_signatures has its old score plus 1 (capped at the
\* maximum), and every other committee member its old score minus 5
\* (floored at 0).
C7_ReputationFollowsCommitSigners ==
    Finalized =>
        \A i \in DOMAIN before :
            before[i].pub_key \in Keys(CallCommittee) =>
                EngineValidators[i].reputation_score =
                    IF before[i].pub_key \in Signers(CommitSigs(block))
                    THEN IF before[i].reputation_score + 1 > U64_MAX
                         THEN U64_MAX
                         ELSE before[i].reputation_score + 1
                    ELSE IF before[i].reputation_score - 5 < 0
                         THEN 0
                         ELSE before[i].reputation_score - 5

\* C8: reputation arithmetic saturates: every score stays within
\* [0, U64_MAX]; after a finalization a committee member that had less than
\* 5 and did not sign a commit has exactly 0, and one that had the maximum
\* and signed a commit still has the maximum.
C8_ReputationSaturates ==
    /\ \A i \in DOMAIN EngineValidators :
           EngineValidators[i].reputation_score \in 0..U64_MAX
    /\ Finalized =>
           \A i \in DOMAIN before :
               before[i].pub_key \in Keys(CallCommittee) =>
                   /\ ( /\ before[i].reputation_score < 5
                        /\ before[i].pub_key \notin Signers(CommitSigs(block)) )
                      => EngineValidators[i].reputation_score = 0
                   /\ ( /\ before[i].reputation_score = U64_MAX
                        /\ before[i].pub_key \in Signers(CommitSigs(block)) )
                      => EngineValidators[i].reputation_score = U64_MAX

\* C9: a finalization against committee C leaves every validator of the
\* engine whose key is not in C exactly as it was, and keeps the engine's
\* validator list in the same order.
C9_OnlyCommitteeMembersTouched ==
    Finalized =>
        /\ Len(EngineValidators) = Len(before)
        /\ \A i \in DOMAIN before :
               /\ EngineValidators[i].pub_key = before[i].pub_key
               /\ before[i].pub_key \notin Keys(CallCommittee)
                      => EngineValidators[i] = before[i]

\* C9 witness: a finalization by the consensus engine against a committee
\* that leaves one of its validators out, with a member's score changed.
C9_Witness ==
    /\ Finalized
    /\ program = "consensus"
    /\ \E i \in DOMAIN before : before[i].pub_key \notin Keys(committee)
    /\ \E i \in DOMAIN before :
           /\ before[i].pub_key \in Keys(committee)
           /\ EngineValidators[i].reputation_score # before[i].reputation_score

\* C10: for a pool P and a committee size N <= |P| (N = 0 included) a
\* selection that returns gives exactly N validators, each an element of P,
\* no two with the same public key.
C10_SelectsExactlyN ==
    ( /\ sel_out # NotCalled
      /\ ~sel_out.panicked
      /\ sel_size <= Len(sel_pool) )
    => /\ Len(sel_out.selected) = sel_size
       /\ \A i \in DOMAIN sel_out.selected : Contains(sel_pool, sel_out.selected[i])
       /\ \A i, j \in DOMAIN sel_out.selected :
              sel_out.selected[i].pub_key = sel_out.selected[j].pub_key => i = j

\* C11: no engine exists whose committee is smaller than 3f+1: construction
\* with n validators and n < 3f+1 fails, so every engine that processes
\* blocks has committee size >= 3f+1.
C11_CommitteeAtLeast3fPlus1 ==
    Finalized => Len(EngineValidators) >= 3 * faulty_nodes_limit + 1

\* a selection call has returned a committee
SelectionReturned == sel_out # NotCalled /\ ~sel_out.panicked

\* the product stake x reputation_score as a mathematical integer
TrueScore(v) == v.stake * v.reputation_score

\* the product clamped at the largest representable score
ClampedScore(v) == IF TrueScore(v) > U64_MAX THEN U64_MAX ELSE TrueScore(v)

InZone(validators, zone) ==
    { i \in DOMAIN validators : validators[i].geopolitical_zone = zone }

\* C12: when the pool holds fewer than committee_size validators with
\* distinct public keys, selection fails; it never returns a committee
\* shorter than committee_size.
C12_ShortPoolIsRefused ==
    ( /\ sel_out # NotCalled
      /\ Cardinality(Keys(sel_pool)) < sel_size )
    => ~( SelectionReturned /\ Len(sel_out.selected) < sel_size )

\* C13: with min_per_zone = committee_size / zone_count, the committee holds
\* for every zone z at least min(min_per_zone, pool validators of z)
\* validators of z, and these seats go to the zone's highest-scoring
\* validators (stated for pools no product of which overflows; the caller of
\* select_validators passes min_per_zone as num_validators_per_zone).
C13_ZoneQuotaIsMet ==
    ( /\ SelectionReturned
      /\ \A i \in DOMAIN sel_pool : TrueScore(sel_pool[i]) <= U64_MAX
      /\ program = "consensus" => sel_per_zone = sel_size \div Len(Zones) )
    => LET min_per_zone == sel_size \div Len(Zones)
       IN  \A z \in DOMAIN Zones :
             LET in_pool == InZone(sel_pool, Zones[z])
                 in_committee == InZone(sel_out.selected, Zones[z])
                 quota == IF Cardinality(in_pool) < min_per_zone
                          THEN Cardinality(in_pool) ELSE min_per_zone
             IN  /\ Cardinality(in_committee) >= quota
                 /\ \A u \in in_pool :
                      ~Contains(sel_out.selected, sel_pool[u]) =>
                          Cardinality({ i \in in_committee :
                              TrueScore(sel_out.selected[i])
                                  >= TrueScore(sel_pool[u]) }) >= quota

\* C14: the composite score never wraps: validators are ranked by the true
\* product clamped at the maximum, so in a committee taken in rank order
\* (no zone quota in play) no validator stands before one whose clamped
\* product is larger.
C14_RankingByClampedProduct ==
    ( /\ SelectionReturned
      /\ program = "snippet" => sel_size < Len(Zones) )
    => \A i, j \in DOMAIN sel_out.selected :
           i < j => ClampedScore(sel_out.selected[i])
                        >= ClampedScore(sel_out.selected[j])

\* the pool with the validators at places a and b exchanged
Swapped(pool, a, b) ==
    [ i \in DOMAIN pool |-> IF i = a THEN pool[b] ELSE IF i = b THEN pool[a]
                            ELSE pool[i] ]

\* the committee the program's selection function returns for `pool`
SelectionOf(pool) ==
    IF program = "snippet"
    THEN select_election_validators(pool, sel_size)
    ELSE select_validators(pool, sel_per_zone, sel_size)

\* C15: selection does not depend on the order of the pool: a pool with
\* two of its validators exchanged gives the identical ordered committee.
C15_SelectionIgnoresPoolOrder ==
    SelectionReturned =>
        \A a, b \in DOMAIN sel_pool :
            SelectionOf(Swapped(sel_pool, a, b)) = sel_out.selected

\* C16: for a transaction list holding two different transactions, the root
\* of any reordering that changes the list differs from the root of the list
\* (and the root of the identical list is the same root).
C16_MerkleOrderSensitive ==
    mk_out # NotCalled =>
        /\ Root(calculate_merkle_root(mk_transactions)) = mk_out
        /\ \A a, b \in DOMAIN mk_transactions :
             Swapped(mk_transactions, a, b) # mk_transactions =>
                 calculate_merkle_root(Swapped(mk_transactions, a, b)) # mk_out.root

\* C17: the root of the empty transaction list is the all-zero 32-byte
\* digest, returned as a value, and a block proposed with no transactions
\* carries that digest as its merkle_root.
C17_EmptyRootIsZeroSentinel ==
    mk_transactions = << >> =>
        /\ mk_out # NotCalled => mk_out = Root(Vec(0, 32))
        /\ block # NoBlock =>
               /\ block.transactions = << >>
               /\ block.header.merkle_root = Vec(0, 32)

C17_Witness ==
    /\ mk_transactions = << >>
    /\ mk_out # NotCalled
    /\ block # NoBlock

\* a validator without its reputation_score
Static(v) == [ pub_key |-> v.pub_key, stake |-> v.stake,
               geopolitical_zone |-> v.geopolitical_zone ]

StaticPart(validators) == [ i \in DOMAIN validators |-> Static(validators[i]) ]

\* C18: over any sequence of propose and finalize calls, f and the
\* validators' number, order, keys, stakes and zones never change, and the
\* reputation scores change only in a call that returns Ok.
C18_OnlyReputationChangesAndOnlyOnOk ==
    [][ /\ faulty_nodes_limit' = faulty_nodes_limit
        /\ StaticPart(EngineValidators') = StaticPart(EngineValidators)
        /\ EngineValidators' # EngineValidators => result' = "Ok" ]_vars

C18_Witness ==
    /\ finalized = 2
    /\ Finalized
    /\ \E i \in DOMAIN before :
         EngineValidators[i].reputation_score # before[i].reputation_score

\* C19: a finalize/process call that returns the prepare-phase or the
\* commit-phase error leaves the engine as it was before the call.
C19_FailedCallChangesNothing ==
    [][ (result' # "none" /\ result' # "Ok") =>
            UNCHANGED << current_committee, current_validators,
                         faulty_nodes_limit >> ]_vars

C19_Witness ==
    /\ CommitError
    /\ faulty_nodes_limit = 1
    /\ finalized = 1
    /\ EngineValidators = before

\* what one call on the block gives on an engine that holds `validators`
AttemptOn(validators) ==
    IF program = "snippet"
    THEN finalize_block_pbft(validators, faulty_nodes_limit, block)
    ELSE process_block_pbft(validators, faulty_nodes_limit, block, committee)

\* C20: after attempts on a block that returned the not-enough-signatures
\* error, an attempt on the same block with prepare and commit lists grown to
\* 2f+1 or more returns Ok, and leaves the engine as one attempt made before
\* any of the failures would have.
C20_QuorumFailureIsRetryable ==
    ( /\ Called
      /\ failed_before
      /\ Len(PrepareSigs(block)) >= 2 * faulty_nodes_limit + 1
      /\ Len(CommitSigs(block)) >= 2 * faulty_nodes_limit + 1 )
    => /\ Finalized
       /\ before = start
       /\ AttemptOn(start) = [ result |-> "Ok", validators |-> EngineValidators ]

C20_Witness ==
    /\ failed_before
    /\ Finalized
    /\ faulty_nodes_limit = 1
    /\ EngineValidators # start

\* C21: the phases are tested in protocol order: a block with fewer than
\* 2f+1 prepare signatures gets the prepare-phase error whatever its commit
\* list holds, the commit-phase error is returned only for a block with 2f+1
\* or more prepare signatures, and the reputations are touched only when both
\* lists hold 2f+1 or more.
C21_PrepareBeforeCommit ==
    Called =>
        /\ Len(PrepareSigs(block)) < 2 * faulty_nodes_limit + 1 => PrepareError
        /\ CommitError => Len(PrepareSigs(block)) >= 2 * faulty_nodes_limit + 1
        /\ EngineValidators # before =>
               /\ Len(PrepareSigs(block)) >= 2 * faulty_nodes_limit + 1
               /\ Len(CommitSigs(block)) >= 2 * faulty_nodes_limit + 1

C21_Witness ==
    /\ PrepareError
    /\ faulty_nodes_limit = 1
    /\ Len(PrepareSigs(block)) = 2
    /\ Len(CommitSigs(block)) = 3

\* C22: propose_block returns a block with the given transactions in the
\* given order, the given proposer key, the merkle_root calculate_merkle_root
\* gives for that list and three empty signature lists, and leaves the engine
\* as it was; a block passed to finalize_block_pbft as proposed is not
\* finalized, whatever f is.
C22_ProposedBlockIsUnsignedAndNotFinal ==
    [][ /\ (block = NoBlock /\ block' # NoBlock) =>
              /\ block'.transactions = mk_transactions
              /\ block'.header.validator_pub_key = mk_proposer_key
              /\ block'.header.merkle_root = calculate_merkle_root(mk_transactions)
              /\ block'.header.pre_prepare_signatures = << >>
              /\ block'.header.prepare_signatures = << >>
              /\ block'.header.commit_signatures = << >>
              /\ UNCHANGED << current_committee, current_validators,
                              faulty_nodes_limit >>
        /\ (result = "none" /\ result' # "none") =>
              /\ result' = "Not enough prepare signatures"
              /\ finalized' = 0 ]_vars

C22_Witness ==
    /\ block # NoBlock
    /\ result = "Not enough prepare signatures"
    /\ faulty_nodes_limit = 0
    /\ Len(mk_transactions) >= 2
    /\ mk_transactions[1] # mk_transactions[2]
    /\ block.transactions = mk_transactions

\* seats the zone pass gives zone number z: min_per_zone, or all the zone has
ZoneSeats(z) ==
    LET min_per_zone == sel_size \div Len(Zones)
        in_pool == Cardinality(InZone(sel_pool, Zones[z]))
    IN  IF in_pool < min_per_zone THEN in_pool ELSE min_per_zone

\* number of seats given out by the zone pass
ZoneSeatsTotal ==
    Cardinality({ s \in (DOMAIN Zones) \X (1..sel_size) : s[2] <= ZoneSeats(s[1]) })

\* C23: the committee lists the zone-quota validators first, zone by zone and
\* within a zone in descending composite score, then the fill validators in
\* descending composite score, and no validator left out has a strictly
\* higher composite score than one admitted by the fill.
C23_ZoneSeatsThenFillByScore ==
    ( SelectionReturned /\ program = "snippet" )
    => LET out == sel_out.selected
           k == ZoneSeatsTotal
       IN  /\ Len(out) >= k
           /\ \A z \in DOMAIN Zones :
                Cardinality({ i \in 1..k : out[i].geopolitical_zone = Zones[z] })
                    = ZoneSeats(z)
           /\ \A i, j \in 1..k :
                ( i < j /\ out[i].geopolitical_zone = out[j].geopolitical_zone )
                => /\ ClampedScore(out[i]) >= ClampedScore(out[j])
                   /\ \A m \in i..j :
                        out[m].geopolitical_zone = out[i].geopolitical_zone
           /\ \A i, j \in (k + 1)..Len(out) :
                i < j => ClampedScore(out[i]) >= ClampedScore(out[j])
           /\ \A i \in (k + 1)..Len(out), u \in DOMAIN sel_pool :
                ~Contains(out, sel_pool[u])
                => ClampedScore(sel_pool[u]) <= ClampedScore(out[i])

====
